---- MODULE Spec2Model ----
(***************************************************************************)
(* A model of serde_perl_dumper: the text grammar (src/src/parser.rs), the *)
(* quoting helpers (src/src/quote.rs), the key serializer                  *)
(* (src/src/ser/key.rs) and the deserializer (src/src/de.rs).              *)
(*                                                                         *)
(* A text is a sequence of one-character strings.  A nom parser is an      *)
(* operator from the remaining input to one of                             *)
(*     Ok(rest, val)   nom's Ok((rest, val))                               *)
(*     Err             nom::Err::Error, the recoverable error alt/opt see  *)
(*     Panic           a Rust panic (an unwrap on a failed conversion)     *)
(***************************************************************************)
EXTENDS Integers, Sequences, FiniteSets

(***************************************************************************)
(* Bounds of the model.                                                    *)
(***************************************************************************)
MaxNumLen == 3
MaxBodyLen == 2
MaxElems == 2
MaxWs == 1
MaxKeyLen == 2
MaxBareLen == 2
MaxStrLen == 2
MaxDepth == 2

(***************************************************************************)
(* Characters.                                                             *)
(***************************************************************************)
BS == "\\"
SQ == "'"
DQ == "\""
\* the grave accent U+0060, which a TLA+ string cannot hold
GRAVE == "<grave>"

Digits == {"0", "1", "2", "3", "4", "5", "6", "7", "8", "9"}

AsciiLetters ==
  {"a", "b", "c", "d", "e", "f", "g", "h", "i", "j", "k", "l", "m",
   "n", "o", "p", "q", "r", "s", "t", "u", "v", "w", "x", "y", "z",
   "A", "B", "C", "D", "E", "F", "G", "H", "I", "J", "K", "L", "M",
   "N", "O", "P", "Q", "R", "S", "T", "U", "V", "W", "X", "Y", "Z"}

\* char::is_ascii_alphanumeric() || c == '_'
BarewordChars == AsciiLetters \cup Digits \cup {"_"}

\* nom's multispace: space, tab, carriage return, line feed
Whitespace == {" ", "\t", "\r", "\n"}

PUNCTUATION ==
  <<"!", "\"", "#", "$", "%", "&", "'", "(", "*", "+", ",", "-", "/",
    ":", ";", "<", "=", "?", "@", "[", "\\", "^", GRAVE, "{", "|", "~">>

Range(s) == {s[i] : i \in 1..Len(s)}

DigitValue(c) ==
  CASE c = "0" -> 0 [] c = "1" -> 1 [] c = "2" -> 2 [] c = "3" -> 3
    [] c = "4" -> 4 [] c = "5" -> 5 [] c = "6" -> 6 [] c = "7" -> 7
    [] c = "8" -> 8 [] c = "9" -> 9

(***************************************************************************)
(* The Value Model (parser.rs, Scalar / Reference / Hash / Array).  A Hash *)
(* is a function from its keys to their values.                            *)
(***************************************************************************)
Scalar_Undefined == [t |-> "Undefined"]
Scalar_Int(i) == [t |-> "Int", i |-> i]
Scalar_Float(f) == [t |-> "Float", f |-> f]
Scalar_String(s) == [t |-> "String", s |-> s]
Scalar_Reference(r) == [t |-> "Reference", r |-> r]
Reference_Hash(h) == [t |-> "Hash", h |-> h]
Reference_Array(a) == [t |-> "Array", a |-> a]
Reference_Scalar(x) == [t |-> "Scalar", x |-> x]

EmptyHash == [k \in {} |-> Scalar_Undefined]

\* HashMap::insert: a later value replaces an earlier one under the same key
HashInsert(h, key, val) ==
  [k \in DOMAIN h \cup {key} |-> IF k = key THEN val ELSE h[k]]

(***************************************************************************)
(* Parser results.                                                         *)
(***************************************************************************)
Ok(rest, val) == [k |-> "ok", rest |-> rest, val |-> val]
Err == [k |-> "err"]
Panic == [k |-> "panic"]

Drop(s, n) == SubSeq(s, n + 1, Len(s))
Take(s, n) == SubSeq(s, 1, n)

RECURSIVE PrefixLen(_, _)
\* the length of the longest prefix of input whose characters are all in set
PrefixLen(set, input) ==
  IF input # <<>> /\ Head(input) \in set
  THEN 1 + PrefixLen(set, Tail(input))
  ELSE 0

\* nom::character::complete::char
char(c, input) ==
  IF input # <<>> /\ Head(input) = c THEN Ok(Tail(input), c) ELSE Err

\* nom::bytes::complete::tag
tag(t, input) ==
  IF Len(input) >= Len(t) /\ Take(input, Len(t)) = t
  THEN Ok(Drop(input, Len(t)), t)
  ELSE Err

\* nom::character::complete::multispace0: never fails
multispace0(input) ==
  LET n == PrefixLen(Whitespace, input) IN Ok(Drop(input, n), Take(input, n))

\* delimited(multispace0, char(','), multispace0)
comma(input) ==
  LET r == char(",", multispace0(input).rest)
  IN IF r.k = "ok" THEN Ok(multispace0(r.rest).rest, ",") ELSE r

(***************************************************************************)
(* Numbers.                                                                *)
(***************************************************************************)
is_perl_digit(c) == c \in Digits \/ c = "_"

PerlDigits == {c \in Digits \cup {"_"} : is_perl_digit(c)}

\* split_at_position1_complete(|item| !is_perl_digit(item), ErrorKind::Digit)
perl_digit1(input) ==
  LET n == PrefixLen(PerlDigits, input)
  IN IF n = 0 THEN Err ELSE Ok(Drop(input, n), Take(input, n))

\* nom::character::complete::digit1: ASCII digits only
digit1(input) ==
  LET n == PrefixLen(Digits, input)
  IN IF n = 0 THEN Err ELSE Ok(Drop(input, n), Take(input, n))

\* String::replace('_', "")
StripUnderscores(s) == SelectSeq(s, LAMBDA c : c # "_")

RECURSIVE StripLeadingZeros(_)
StripLeadingZeros(ds) ==
  IF ds # <<>> /\ Head(ds) = "0" THEN StripLeadingZeros(Tail(ds)) ELSE ds

RECURSIVE StripTrailingZeros(_)
StripTrailingZeros(ds) ==
  IF ds # <<>> /\ ds[Len(ds)] = "0"
  THEN StripTrailingZeros(Take(ds, Len(ds) - 1))
  ELSE ds

RECURSIVE DigitsToNat(_)
DigitsToNat(ds) ==
  IF ds = <<>> THEN 0
  ELSE 10 * DigitsToNat(Take(ds, Len(ds) - 1)) + DigitValue(ds[Len(ds)])

RECURSIVE LexLess(_, _)
\* a < b for two digit strings of the same length
LexLess(a, b) ==
  /\ a # <<>>
  /\ \/ DigitValue(Head(a)) < DigitValue(Head(b))
     \/ Head(a) = Head(b) /\ LexLess(Tail(a), Tail(b))

\* i64::MAX = 9223372036854775807, and the magnitude of i64::MIN
I64MaxDigits ==
  <<"9", "2", "2", "3", "3", "7", "2", "0", "3", "6", "8", "5", "4", "7",
    "7", "5", "8", "0", "7">>
I64MinDigits ==
  <<"9", "2", "2", "3", "3", "7", "2", "0", "3", "6", "8", "5", "4", "7",
    "7", "5", "8", "0", "8">>

\* the magnitude sig (no leading zeros) does not fit a signed 64-bit integer
I64Overflow(neg, sig) ==
  LET lim == IF neg THEN I64MinDigits ELSE I64MaxDigits
  IN \/ Len(sig) > Len(lim)
     \/ Len(sig) = Len(lim) /\ LexLess(lim, sig)

\* str::parse::<i64>(): [ok |-> FALSE] is the Err(ParseIntError) the code
\* unwraps; the text is empty, a sign alone, holds a non-digit, or overflows
str_parse_i64(s) ==
  LET neg == s # <<>> /\ Head(s) = "-"
      ds == IF neg THEN Tail(s) ELSE s
      sig == StripLeadingZeros(ds)
  IN IF ds = <<>> \/ ~(Range(ds) \subseteq Digits) \/ I64Overflow(neg, sig)
     THEN [ok |-> FALSE]
     ELSE [ok |-> TRUE,
           v |-> IF neg THEN 0 - DigitsToNat(sig) ELSE DigitsToNat(sig)]

\* str::parse::<f64>() on sign? digits? ('.' digits?)?: fails when there is no
\* digit at all.  The value is kept as its exact decimal expansion: the
\* integer digits without leading zeros, the fraction digits without
\* trailing zeros (zero has no sign).
str_parse_f64(s) ==
  LET neg == s # <<>> /\ Head(s) = "-"
      ds == IF neg THEN Tail(s) ELSE s
      dot == PrefixLen(Digits, ds)
      ip == Take(ds, dot)
      fp == IF dot < Len(ds) THEN Drop(ds, dot + 1) ELSE <<>>
      wellFormed == /\ dot = Len(ds) \/ ds[dot + 1] = "."
                    /\ Range(fp) \subseteq Digits
                    /\ ip # <<>> \/ fp # <<>>
      ip0 == StripLeadingZeros(ip)
      fp0 == StripTrailingZeros(fp)
  IN IF ~wellFormed
     THEN [ok |-> FALSE]
     ELSE [ok |-> TRUE,
           v |-> [neg |-> neg /\ (ip0 # <<>> \/ fp0 # <<>>),
                  ip |-> ip0, fp |-> fp0]]

\* nom's opt: the failure of the parser is None (<<>>), and nothing is consumed
opt(r, input) == IF r.k = "ok" THEN Ok(r.rest, <<r.val>>) ELSE Ok(input, <<>>)

\* Option::unwrap_or("")
unwrap_or_empty(o) == IF o = <<>> THEN <<>> ELSE o[1]

\* sign.map(|c| c.to_string()).unwrap_or_default(): the text of the character
char_to_string(o) == IF o = <<>> THEN <<>> ELSE <<o[1]>>

\* what opt leaves to the next parser
rest_after(r, input) == IF r.k = "ok" THEN r.rest ELSE input

\* tuple((char('.'), many1(perl_digit1))): one maximal run of perl digits,
\* after which the next perl_digit1 of many1 fails; the value is frac.join("")
number_fraction(input) ==
  IF char(".", input).k = "ok" THEN perl_digit1(Tail(input)) ELSE Err

\* preceded(one_of("eE"), digit1): the marker is dropped
number_exponent(input) ==
  IF input # <<>> /\ Head(input) \in {"e", "E"} THEN digit1(Tail(input)) ELSE Err

\* s.parse::<i64>().unwrap() and s.parse::<f64>().unwrap()
unwrap_int(rest, i) == IF i.ok THEN Ok(rest, Scalar_Int(i.v)) ELSE Panic
unwrap_float(rest, f) == IF f.ok THEN Ok(rest, Scalar_Float(f.v)) ELSE Panic

\* match parts { (sign, int, None, e) => ..., (sign, int, Some((_, frac)), e) => ... }
number_match(rest, sign, int, frac, e) ==
  IF frac = <<>>
  THEN unwrap_int(rest,
         str_parse_i64(StripUnderscores(
           char_to_string(sign) \o int \o unwrap_or_empty(e))))
  ELSE unwrap_float(rest,
         str_parse_f64(StripUnderscores(
           char_to_string(sign) \o int \o <<".">> \o frac[1] \o unwrap_or_empty(e))))

\* the parsers of the tuple, each on what the one before it left
number_e(sign, int, frac, e) == number_match(e.rest, sign.val, int.val, frac.val, e.val)
number_frac(sign, int, frac) ==
  number_e(sign, int, frac, opt(number_exponent(frac.rest), frac.rest))
number_int(sign, int) ==
  IF int.k = "ok"
  THEN number_frac(sign, int, opt(number_fraction(int.rest), int.rest))
  ELSE Err
number_sign(sign) == number_int(sign, perl_digit1(sign.rest))

parse_number(input) == number_sign(opt(char("-", input), input))

(***************************************************************************)
(* Strings.                                                                *)
(***************************************************************************)
RECURSIVE escaped_loop(_, _, _, _)
\* nom 7 bytes::complete::escaped(none_of(excluded), '\\', one_of(escapable)):
\* i is what is left of input; the value is the matched slice of input, with
\* its backslashes
escaped_loop(excluded, escapable, input, i) ==
  IF i = <<>> THEN Ok(<<>>, input)
  ELSE IF Head(i) \notin excluded
  THEN \* normal consumed one character
       IF Tail(i) = <<>> THEN Ok(<<>>, input)
       ELSE escaped_loop(excluded, escapable, input, Tail(i))
  ELSE IF Head(i) = BS
  THEN IF Len(i) <= 1 THEN Err
       ELSE IF i[2] \notin escapable THEN Err
       ELSE IF Len(i) = 2 THEN Ok(<<>>, input)
       ELSE escaped_loop(excluded, escapable, input, Drop(i, 2))
  ELSE LET index == Len(input) - Len(i)
       IN IF index = 0 THEN Err ELSE Ok(i, Take(input, index))

escaped(excluded, escapable, input) ==
  escaped_loop(excluded, escapable, input, input)

parse_single_quoted_string(input) ==
  LET open == char(SQ, input)
      s == IF open.k = "ok" THEN escaped({BS, SQ}, {SQ, BS}, open.rest) ELSE Err
      close == IF s.k = "ok" THEN char(SQ, s.rest) ELSE Err
  IN IF close.k = "ok" THEN Ok(close.rest, Scalar_String(s.val)) ELSE Err

\* the alt((value(..., tag(...)), ...)) of parse_double_quoted_string
DoubleQuotedEscapes == {BS, DQ, "n", "r", "t", "0", "v", "b", "a", "e", "z"}

\* a control character is written as its code, "<0x0B>" for U+000B
DoubleQuotedTransform(c) ==
  CASE c = BS -> BS [] c = DQ -> DQ [] c = "n" -> "\n" [] c = "r" -> "\r"
    [] c = "t" -> "\t" [] c = "0" -> "<0x00>" [] c = "v" -> "<0x0B>"
    [] c = "b" -> "<0x08>" [] c = "a" -> "<0x07>" [] c = "e" -> "<0x1B>"
    [] c = "z" -> "<0x1F>"

RECURSIVE escaped_transform_loop(_, _, _)
\* nom 7 bytes::complete::escaped_transform(none_of("\\\""), '\\', alt(...)):
\* index is the offset reached in input, res the text built so far
escaped_transform_loop(input, index, res) ==
  IF index >= Len(input) THEN Ok(<<>>, res)
  ELSE LET remainder == Drop(input, index)
           c == Head(remainder)
       IN IF c \notin {BS, DQ}
          THEN IF Tail(remainder) = <<>> THEN Ok(<<>>, Append(res, c))
               ELSE escaped_transform_loop(input, index + 1, Append(res, c))
          ELSE IF c = BS
          THEN LET next == index + 1
               IN IF next >= Len(input) THEN Err
                  ELSE IF input[next + 1] \notin DoubleQuotedEscapes THEN Err
                  ELSE LET o == DoubleQuotedTransform(input[next + 1])
                       IN IF next + 1 = Len(input) THEN Ok(<<>>, Append(res, o))
                          ELSE escaped_transform_loop(input, next + 1, Append(res, o))
          ELSE IF index = 0 THEN Err ELSE Ok(remainder, res)

parse_double_quoted_string(input) ==
  LET open == char(DQ, input)
      s == IF open.k = "ok" THEN escaped_transform_loop(open.rest, 0, <<>>) ELSE Err
      close == IF s.k = "ok" THEN char(DQ, s.rest) ELSE Err
  IN IF close.k = "ok" THEN Ok(close.rest, Scalar_String(s.val)) ELSE Err

paired_quote_delimiter(c) ==
  CASE c = "(" -> ")" [] c = "[" -> "]" [] c = "{" -> "}" [] c = "<" -> ">"
    [] OTHER -> c

RECURSIVE PrefixLenNot(_, _)
\* the length of the longest prefix of input with no character in set
PrefixLenNot(set, input) ==
  IF input # <<>> /\ Head(input) \notin set
  THEN 1 + PrefixLenNot(set, Tail(input))
  ELSE 0

\* escaped(many0(none_of(esc)), '\\', one_of(esc)): many0 never fails, so the
\* escape branch is never taken.  The first round takes the longest run free
\* of esc; escaped returns when that run reaches the end of the input, or in
\* the next round, where many0 matches nothing.
escaped_many0(esc, input) ==
  LET n == PrefixLenNot(esc, input)
  IN IF input = <<>> THEN Ok(<<>>, input)
     ELSE IF n = Len(input) THEN Ok(<<>>, input)
     ELSE Ok(Drop(input, n), Take(input, n))

\* parse_q_string without paired_quote_delimiter: the closing delimiter is the
\* opening one
parse_q_string_unpaired(input) ==
  LET q == char("q", input)
      hasDelim == q.k = "ok" /\ q.rest # <<>> /\ Head(q.rest) \in Range(PUNCTUATION)
      start_delim == Head(q.rest)
      s == escaped_many0({start_delim, BS}, Tail(q.rest))
      close == char(start_delim, s.rest)
  IN IF hasDelim /\ close.k = "ok"
     THEN Ok(close.rest, Scalar_String(s.val))
     ELSE Err

parse_q_string(input) ==
  LET q == char("q", input)
      hasDelim == q.k = "ok" /\ q.rest # <<>> /\ Head(q.rest) \in Range(PUNCTUATION)
      start_delim == Head(q.rest)
      end_delim == paired_quote_delimiter(start_delim)
      s == escaped_many0({end_delim, BS}, Tail(q.rest))
      close == char(end_delim, s.rest)
  IN IF hasDelim /\ close.k = "ok"
     THEN Ok(close.rest, Scalar_String(s.val))
     ELSE Err

\* nom's alt: the first alternative that does not fail with Err::Error
alt2(a, b) == IF a.k = "err" THEN b ELSE a
alt3(a, b, c) == alt2(a, alt2(b, c))

parse_string(input) ==
  alt3(parse_single_quoted_string(input),
       parse_double_quoted_string(input),
       parse_q_string(input))

parse_undef(input) ==
  LET r == tag(<<"u", "n", "d", "e", "f">>, input)
  IN IF r.k = "ok" THEN Ok(r.rest, Scalar_Undefined) ELSE Err

parse_literal_scalar(input) ==
  LET i == multispace0(input).rest
  IN alt3(parse_undef(i), parse_number(i), parse_string(i))

parse_bareword(input) ==
  LET n == PrefixLen(BarewordChars, input)
  IN IF n = 0 THEN Err ELSE Ok(Drop(input, n), Scalar_String(Take(input, n)))

parse_bareword_or_literal(input) ==
  alt2(parse_bareword(input), parse_literal_scalar(input))

(***************************************************************************)
(* References: the recursive part of the grammar.  Where a function binds  *)
(* what a parser returned (let (input, x) = p(input)?), the rest of the    *)
(* function is an operator of that result.                                 *)
(***************************************************************************)
RECURSIVE HashFromPairs(_, _)
\* the loop of parse_hashref: [ok |-> FALSE] when a key is not a String
HashFromPairs(pairs, hash) ==
  IF pairs = <<>> THEN [ok |-> TRUE, hash |-> hash]
  ELSE IF Head(pairs)[1].t = "String"
  THEN HashFromPairs(Tail(pairs),
                     HashInsert(hash, Head(pairs)[1].s, Head(pairs)[2]))
  ELSE [ok |-> FALSE]

RECURSIVE parse_scalar(_), parse_reference(_), parse_scalarref(_)
RECURSIVE parse_hashref(_), parse_pair(_), parse_arrayref(_)
RECURSIVE parse_comma_pair(_), parse_fatcomma_pair(_)
RECURSIVE separated_list0(_, _), separated_list0_loop(_, _)

parse_scalar(input) ==
  alt2(parse_literal_scalar(input), parse_reference(input))

reference_of(reference) ==
  IF reference.k = "ok"
  THEN Ok(reference.rest, Scalar_Reference(reference.val))
  ELSE reference

parse_reference(input) ==
  reference_of(alt3(parse_hashref(input), parse_arrayref(input),
                    parse_scalarref(input)))

scalarref_of(scalar) ==
  IF scalar.k = "ok"
  THEN Ok(scalar.rest, Reference_Scalar(scalar.val))
  ELSE scalar

parse_scalarref(input) ==
  IF char(BS, input).k = "ok" THEN scalarref_of(parse_scalar(Tail(input))) ELSE Err

\* the element parser f of separated_list0(comma, f)
list_element(f, input) ==
  IF f = "parse_pair" THEN parse_pair(input) ELSE parse_scalar(input)

list_push(o, more) ==
  IF more.k = "ok" THEN Ok(more.rest, <<o.val>> \o more.val) ELSE more

\* nom 7 multi::separated_list0: o is what the element parser returned; an
\* element that fails ends the list at input, with the separator before the
\* element left unconsumed
list_next(f, input, o) ==
  IF o.k = "err" THEN Ok(input, <<>>)
  ELSE IF o.k = "panic" THEN Panic
  ELSE list_push(o, separated_list0_loop(f, o.rest))

list_separator(f, input, s) ==
  IF s.k = "ok" THEN list_next(f, input, list_element(f, s.rest))
  ELSE Ok(input, <<>>)

separated_list0_loop(f, input) == list_separator(f, input, comma(input))

separated_list0(f, input) == list_next(f, input, list_element(f, input))

\* list_close without the opt(comma): a list that tolerates no trailing comma
list_close_no_comma(c, input) == char(c, multispace0(input).rest)

\* opt(comma), multispace0, char(c): the end of a hashref or an arrayref
list_close(c, input) ==
  char(c, multispace0(rest_after(comma(input), input)).rest)

hashref_of(close, built) ==
  IF built.ok THEN Ok(close.rest, Reference_Hash(built.hash)) ELSE Err

hashref_close(pairs, close) ==
  IF close.k = "ok"
  THEN hashref_of(close, HashFromPairs(pairs.val, EmptyHash))
  ELSE Err

hashref_pairs(pairs) ==
  IF pairs.k = "ok" THEN hashref_close(pairs, list_close("}", pairs.rest))
  ELSE pairs

parse_hashref(input) ==
  IF char("{", input).k = "ok"
  THEN hashref_pairs(separated_list0("parse_pair", multispace0(Tail(input)).rest))
  ELSE Err

parse_pair(input) ==
  alt2(parse_fatcomma_pair(input), parse_comma_pair(input))

pair_of(key, value) ==
  IF value.k = "ok" THEN Ok(value.rest, <<key.val, value.val>>) ELSE value

comma_pair_comma(key, sep) ==
  IF sep.k = "ok" THEN pair_of(key, parse_scalar(sep.rest)) ELSE Err

comma_pair_key(key) ==
  IF key.k = "ok" THEN comma_pair_comma(key, comma(key.rest)) ELSE key

parse_comma_pair(input) ==
  comma_pair_key(parse_literal_scalar(multispace0(input).rest))

fatcomma_pair_arrow(key, arrow) ==
  IF arrow.k = "ok"
  THEN pair_of(key, parse_scalar(multispace0(arrow.rest).rest))
  ELSE Err

fatcomma_pair_key(key) ==
  IF key.k = "ok"
  THEN fatcomma_pair_arrow(key, tag(<<"=", ">">>, multispace0(key.rest).rest))
  ELSE key

parse_fatcomma_pair(input) ==
  fatcomma_pair_key(parse_bareword_or_literal(multispace0(input).rest))

arrayref_close(scalars, close) ==
  IF close.k = "ok" THEN Ok(close.rest, Reference_Array(scalars.val)) ELSE Err

arrayref_scalars(scalars) ==
  IF scalars.k = "ok" THEN arrayref_close(scalars, list_close("]", scalars.rest))
  ELSE scalars

parse_arrayref(input) ==
  IF char("[", input).k = "ok"
  THEN arrayref_scalars(separated_list0("parse_scalar", multispace0(Tail(input)).rest))
  ELSE Err

(***************************************************************************)
(* parse: what the caller sees.  The unconsumed rest is discarded.         *)
(***************************************************************************)
ResultOk(v) == [k |-> "Ok", val |-> v]
ResultErr(e) == [k |-> "Err", e |-> e]

\* map_err(|e| Error::Nom(...))?, then Ok(scalar); a panic unwinds through
parse_result(r) ==
  IF r.k = "ok" THEN ResultOk(r.val)
  ELSE IF r.k = "err" THEN ResultErr("Nom")
  ELSE Panic

parse(input) == parse_result(parse_scalar(input))

(***************************************************************************)
(* quote.rs                                                                *)
(***************************************************************************)
RECURSIVE single_quote_chars(_)
\* the loop of single_quote: only the single quote gets a backslash
single_quote_chars(value) ==
  IF value = <<>> THEN <<>>
  ELSE (IF Head(value) = SQ THEN <<BS, SQ>> ELSE <<Head(value)>>)
         \o single_quote_chars(Tail(value))

single_quote(output, value) ==
  output \o <<SQ>> \o single_quote_chars(value) \o <<SQ>>

\* is_bareword without the is_empty test
is_bareword_or_empty(value) ==
  \A n \in 1..Len(value) : value[n] \in BarewordChars

is_bareword(value) ==
  IF value = <<>> THEN FALSE
  ELSE \A n \in 1..Len(value) : value[n] \in BarewordChars

bare_quote(output, value) ==
  IF is_bareword(value) THEN output \o value ELSE single_quote(output, value)

DigitChar(d) == <<"0", "1", "2", "3", "4", "5", "6", "7", "8", "9">>[d + 1]

RECURSIVE NatToDigits(_)
NatToDigits(n) ==
  IF n < 10 THEN <<DigitChar(n)>>
  ELSE Append(NatToDigits(n \div 10), DigitChar(n % 10))

\* itoa::Buffer::format: the minimal decimal text of an integer
itoa_format(value) ==
  IF value < 0 THEN <<"-">> \o NatToDigits(0 - value) ELSE NatToDigits(value)

int_quote(output, value) == output \o itoa_format(value)

\* the digits of a float [neg, ip, fp] (see str_parse_f64), for a magnitude
\* that neither ryu nor Display writes with an exponent
FloatDigits(value, ifWhole) ==
  (IF value.neg THEN <<"-">> ELSE <<>>)
    \o (IF value.ip = <<>> THEN <<"0">> ELSE value.ip)
    \o (IF value.fp = <<>> THEN ifWhole ELSE <<".">> \o value.fp)

\* ryu::Buffer::format: the shortest text that reads back; 1.0 is "1.0"
ryu_format(value) == FloatDigits(value, <<".", "0">>)

float_quote(output, value) == output \o ryu_format(value)

\* f64::to_string (Display): 1.0 is "1"
f64_to_string(v) == FloatDigits(v, <<>>)

(***************************************************************************)
(* ser/key.rs: KeySerializer.  A value presented as a key is a record      *)
(* naming the Serializer method its Serialize impl calls (shape) and that  *)
(* method's arguments.  Every method returns the Result and the buffer.    *)
(***************************************************************************)
KeyOk(output) == [res |-> ResultOk("unit"), output |-> output]
KeyErr(msg, output) == [res |-> ResultErr(msg), output |-> output]

serialize_str(output, value) == KeyOk(bare_quote(output, value))
serialize_i128(output) == KeyErr("i128 is not supported", output)
serialize_u128(output) == KeyErr("u128 is not supported", output)
serialize_bool(output, v) == KeyOk(output \o (IF v THEN <<"1">> ELSE <<"0">>))
\* serialize_i8 .. serialize_u64
serialize_int(output, v) == KeyOk(int_quote(output, v))
serialize_f32(output, v) == KeyOk(float_quote(output, v))
serialize_f64(output, v) == KeyOk(float_quote(output \o f64_to_string(v), v))
serialize_char(output, v) == KeyOk(Append(output, v))
serialize_none(output) == KeyOk(output \o <<"n", "u", "l", "l">>)
serialize_unit(output) == KeyOk(output)
serialize_unit_struct(output, name) == KeyOk(output \o name)
serialize_unit_variant(output, variant) == KeyOk(output \o variant)
serialize_seq(output) == KeyErr("key must be a string", output)
serialize_map(output) == KeyErr("key must be a string", output)
serialize_struct(output) == KeyErr("key must be a string", output)
serialize_struct_variant(output) == KeyErr("key must be a string", output)
serialize_tuple(output) == KeyErr("key must be a string", output)
serialize_tuple_struct(output) == KeyErr("key must be a string", output)
serialize_tuple_variant(output) == KeyErr("key must be a string", output)

RECURSIVE serialize(_, _)
\* value.serialize(&mut *self): the method of the value's shape
serialize(output, value) ==
  CASE value.shape = "str" -> serialize_str(output, value.s)
    [] value.shape = "i128" -> serialize_i128(output)
    [] value.shape = "u128" -> serialize_u128(output)
    [] value.shape = "bool" -> serialize_bool(output, value.b)
    [] value.shape = "int" -> serialize_int(output, value.i)
    [] value.shape = "f32" -> serialize_f32(output, value.f)
    [] value.shape = "f64" -> serialize_f64(output, value.f)
    [] value.shape = "char" -> serialize_char(output, value.c)
    [] value.shape = "none" -> serialize_none(output)
    [] value.shape = "some" -> serialize(output, value.v)          \* serialize_some
    [] value.shape = "unit" -> serialize_unit(output)
    [] value.shape = "unit_struct" -> serialize_unit_struct(output, value.name)
    [] value.shape = "unit_variant" -> serialize_unit_variant(output, value.name)
    [] value.shape = "newtype_struct" ->                            \* serialize_newtype_struct
         serialize(output \o value.name, value.v)
    [] value.shape = "newtype_variant" ->                           \* serialize_newtype_variant
         serialize(output \o value.name, value.v)
    [] value.shape = "seq" -> serialize_seq(output)
    [] value.shape = "map" -> serialize_map(output)
    [] value.shape = "struct" -> serialize_struct(output)
    [] value.shape = "struct_variant" -> serialize_struct_variant(output)
    [] value.shape = "tuple" -> serialize_tuple(output)
    [] value.shape = "tuple_struct" -> serialize_tuple_struct(output)
    [] value.shape = "tuple_variant" -> serialize_tuple_variant(output)

(***************************************************************************)
(* de.rs: the Deserializer.  A notification is the Visitor method called   *)
(* and what it is handed.                                                  *)
(***************************************************************************)
\* the orders in which a HashMap may hand out its entries: every one
IterationOrders(h) ==
  {o \in [1..Cardinality(DOMAIN h) -> DOMAIN h] :
     \A i, j \in DOMAIN o : i # j => o[i] # o[j]}

RECURSIVE deserialize_any(_)
\* the sequences of notifications deserialize_any may issue for a node
deserialize_any(scalar) ==
  CASE scalar.t = "Undefined" -> {<<[visit |-> "unit"]>>}
    [] scalar.t = "Int" -> {<<[visit |-> "i64", v |-> scalar.i]>>}
    [] scalar.t = "Float" -> {<<[visit |-> "f64", v |-> scalar.f]>>}
    [] scalar.t = "String" -> {<<[visit |-> "string", v |-> scalar.s]>>}
    [] scalar.t = "Reference" ->
         CASE scalar.r.t = "Hash" ->
                {<<[visit |-> "map",
                    entries |-> [i \in DOMAIN o |-> <<o[i], scalar.r.h[o[i]]>>]]>> :
                   o \in IterationOrders(scalar.r.h)}
           [] scalar.r.t = "Array" -> {<<[visit |-> "seq", elems |-> scalar.r.a]>>}
           [] scalar.r.t = "Scalar" -> deserialize_any(scalar.r.x)

\* forward_to_deserialize_any!: deserialize_bool, deserialize_u8, ...
Requests ==
  {"any", "bool", "u8", "i64", "f64", "string", "option", "unit", "seq",
   "map", "struct", "enum"}

\* a deserialize_unit that is not forwarded, and answers by itself
deserialize_unit_unforwarded(request, scalar) ==
  IF request = "unit" THEN {<<[visit |-> "unit"]>>} ELSE deserialize_any(scalar)

deserialize(request, scalar) == deserialize_any(scalar)

(***************************************************************************)
(* The printer rules for a Value Model tree: integers as minimal decimal,  *)
(* strings through single_quote, arrays as [e1,e2,...], hashes as          *)
(* {k=>v,...} with keys through bare_quote, in any key order.              *)
(***************************************************************************)
RECURSIVE Join(_, _)
Join(parts, sep) ==
  IF parts = <<>> THEN <<>>
  ELSE IF Len(parts) = 1 THEN parts[1]
  ELSE parts[1] \o sep \o Join(Tail(parts), sep)

RECURSIVE to_string(_)
\* the texts the printer may give for a tree (one per hash key order)
to_string(scalar) ==
  CASE scalar.t = "Int" -> {itoa_format(scalar.i)}
    [] scalar.t = "String" -> {single_quote(<<>>, scalar.s)}
    [] scalar.t = "Reference" ->
         CASE scalar.r.t = "Array" ->
                LET a == scalar.r.a
                IN {<<"[">> \o Join(parts, <<",">>) \o <<"]">> :
                      parts \in {ps \in [DOMAIN a -> UNION {to_string(a[i]) : i \in DOMAIN a}] :
                                   \A i \in DOMAIN a : ps[i] \in to_string(a[i])}}
           [] scalar.r.t = "Hash" ->
                LET h == scalar.r.h
                    Entry(key, text) == bare_quote(<<>>, key) \o <<"=", ">">> \o text
                IN UNION {
                     {<<"{">> \o Join([i \in DOMAIN o |-> Entry(o[i], ps[i])], <<",">>) \o <<"}">> :
                        ps \in {qs \in [DOMAIN o -> UNION {to_string(h[key]) : key \in DOMAIN h}] :
                                  \A i \in DOMAIN o : qs[i] \in to_string(h[o[i]])}} :
                     o \in IterationOrders(h)}

(***************************************************************************)
(* The calls the model makes.  arg describes the call: its family and what *)
(* the argument is built from.                                             *)
(***************************************************************************)
SeqsUpTo(S, n) == UNION {[1..m -> S] : m \in 0..n}

Spaces(n) == [i \in 1..n |-> " "]

\* number literals, alone, as the only array element and as a comma-form key
NumberChars == {"-", "_", "1", ".", "e"}
OverflowTexts == {I64MinDigits, <<"-">> \o I64MinDigits \o <<"0">>}
ExponentTexts == {<<"1", "e", "5">>, <<"1", ".", "5", "e", "3">>, <<"2", "E", "2">>}
NumberArgs ==
  {[fam |-> "number", wrap |-> w, t |-> t] :
     w \in {"none", "array", "key"},
     t \in SeqsUpTo(NumberChars, MaxNumLen) \cup OverflowTexts \cup ExponentTexts}

NumberText(arg) ==
  CASE arg.wrap = "none" -> arg.t
    [] arg.wrap = "array" -> <<"[">> \o arg.t \o <<"]">>
    [] arg.wrap = "key" -> <<"{">> \o arg.t \o <<",", "1", "}">>

\* the quote operator: q, a delimiter, a body, the closing delimiter
BodyChars == {"h", "i", ")", "!", "}", BS}
QStringArgs ==
  {[fam |-> "qstring", d |-> d, body |-> body] :
     d \in Range(PUNCTUATION), body \in SeqsUpTo(BodyChars, MaxBodyLen)}

QStringText(arg) ==
  <<"q", arg.d>> \o arg.body \o <<paired_quote_delimiter(arg.d)>>

\* a hashref of one pair with a bareword key, in the fat-comma and comma form
BareChars == {"a", "q", "1", "_"}
ScalarTexts ==
  {<<"1">>, <<SQ, "a", SQ>>, <<"u", "n", "d", "e", "f">>, <<"[", "1", "]">>,
   <<"q", "(", "a", ")">>, <<"{", "a", "=", ">", "1", "}">>,
   <<SQ, ",", ",", BS, SQ, "a", SQ>>}
PairArgs ==
  {[fam |-> "pair", b |-> b, v |-> v, fat |-> fat] :
     b \in SeqsUpTo(BareChars, MaxBareLen) \ {<<>>}, v \in ScalarTexts,
     fat \in BOOLEAN}

PairText(arg) ==
  <<"{">> \o arg.b \o (IF arg.fat THEN <<"=", ">">> ELSE <<",">>) \o arg.v \o <<"}">>

\* arrayrefs and hashrefs of elements, some of them no scalar of the grammar
ElementTexts ==
  {<<"1">>, <<SQ, "a", SQ>>, <<"u", "n", "d", "e", "f">>, <<"[", "2", "]">>,
   <<"q", ",", "b", ",">>}
BadTexts == {<<"x">>, <<"_">>, <<"1", "x">>}
ListArgs ==
  {[fam |-> "list", kind |-> kind, elems |-> elems, wb |-> wb, wa |-> wa,
    trailing |-> trailing] :
     kind \in {"array", "hash", "nested"},
     elems \in SeqsUpTo(ElementTexts \cup BadTexts, MaxElems) \ {<<>>},
     wb \in 0..MaxWs, wa \in 0..MaxWs, trailing \in BOOLEAN}

\* the i-th pair of a hashref: k<i> => element, or 'k<i>' , element
ListPair(i, e) ==
  IF i % 2 = 1
  THEN <<"k", DigitChar(i)>> \o <<"=", ">">> \o e
  ELSE <<SQ, "k", DigitChar(i), SQ, ",">> \o e

ListText(arg) ==
  LET sep == Spaces(arg.wb) \o <<",">> \o Spaces(arg.wa)
      tail == IF arg.trailing THEN sep ELSE <<>>
      array == <<"[">> \o Join(arg.elems, sep) \o tail \o <<"]">>
  IN CASE arg.kind = "array" -> array
       [] arg.kind = "nested" -> <<"{", "n", "=", ">", "[">> \o array \o <<"]", "}">>
       [] arg.kind = "hash" ->
            <<"{">> \o Join([i \in DOMAIN arg.elems |-> ListPair(i, arg.elems[i])], sep)
              \o tail \o <<"}">>

\* string literals, item by item: an item is a character, or a backslash and
\* a character; alone, or as the fat-comma key of a hashref
SingleItems == {<<"a">>, <<BS, SQ>>, <<BS, BS>>, <<BS, "a">>}
DoubleItems ==
  {<<"a">>, <<SQ>>} \cup {<<BS, c>> : c \in DoubleQuotedEscapes \cup {"x"}}
QItems == {<<"h">>, <<"i">>}
LiteralItems(quote) ==
  CASE quote = "single" -> SingleItems
    [] quote = "double" -> DoubleItems
    [] quote = "q" -> QItems

LiteralArgs ==
  UNION {{[fam |-> "literal", quote |-> quote, items |-> items, key |-> key] :
            items \in SeqsUpTo(LiteralItems(quote), MaxBodyLen), key \in BOOLEAN} :
         quote \in {"single", "double", "q"}}

RECURSIVE Flatten(_)
Flatten(items) ==
  IF items = <<>> THEN <<>> ELSE Head(items) \o Flatten(Tail(items))

Literal(quote, items) ==
  CASE quote = "single" -> <<SQ>> \o Flatten(items) \o <<SQ>>
    [] quote = "double" -> <<DQ>> \o Flatten(items) \o <<DQ>>
    [] quote = "q" -> <<"q", "(">> \o Flatten(items) \o <<")">>

LiteralText(arg) ==
  IF arg.key
  THEN <<"{">> \o Literal(arg.quote, arg.items) \o <<" ", "=", ">", " ", "1", "}">>
  ELSE Literal(arg.quote, arg.items)

ParseFamilies == {"number", "qstring", "pair", "list", "literal"}

ArgText(arg) ==
  CASE arg.fam = "number" -> NumberText(arg)
    [] arg.fam = "qstring" -> QStringText(arg)
    [] arg.fam = "pair" -> PairText(arg)
    [] arg.fam = "list" -> ListText(arg)
    [] arg.fam = "literal" -> LiteralText(arg)
    [] arg.fam = "text" -> arg.t
    [] OTHER -> <<>>

\* texts handed to from_str: scalar references, level upon level, alone and
\* as an array element; and a scalar with more text behind it
Backslashes(n) == [i \in 1..n |-> BS]
RefTexts ==
  UNION {{Backslashes(n) \o t, <<"[">> \o Backslashes(n) \o t \o <<"]">>} :
           n \in 0..MaxDepth, t \in {<<"1">>, <<SQ, "a", SQ>>, <<"[", "1", "]">>}}
TrailingTexts ==
  {<<"[", "1", "]", " ", "x">>, <<"1", ".", "5", ".", "5">>,
   <<"u", "n", "d", "e", "f", "i", "n", "e", "d">>}
TextArgs == {[fam |-> "text", t |-> t] : t \in RefTexts \cup TrailingTexts}

\* trees handed to from_perl and to the printer
StringChars == {"a", SQ, BS}
Strings == SeqsUpTo(StringChars, MaxStrLen)
Leaves ==
  {Scalar_Int(i) : i \in {0, 7, 0 - 12}} \cup {Scalar_String(s) : s \in Strings}
Arrays == {Scalar_Reference(Reference_Array(a)) : a \in SeqsUpTo(Leaves, MaxElems)}
Hashes ==
  {Scalar_Reference(Reference_Hash(h)) :
     h \in UNION {[ks -> {Scalar_Int(7), Scalar_String(<<SQ>>)}] :
                    ks \in {{}, {<<"a">>}, {<<"a">>, <<"b", " ">>}, {<<>>}}}}
Nested ==
  {Scalar_Reference(Reference_Array(<<x, Scalar_Int(7)>>)) : x \in Hashes}
TreeValues == Leaves \cup Arrays \cup Hashes \cup Nested

RoundTripArgs == {[fam |-> "roundtrip", scalar |-> v] : v \in TreeValues}

ScalarRefs ==
  {Scalar_Reference(Reference_Scalar(x)) :
     x \in Leaves \cup Hashes
            \cup {Scalar_Reference(Reference_Scalar(y)) : y \in Leaves}}
Floats ==
  {Scalar_Float([neg |-> FALSE, ip |-> <<"1">>, fp |-> <<"5">>]),
   Scalar_Float([neg |-> TRUE, ip |-> <<>>, fp |-> <<"2", "5">>])}
BridgeValues ==
  {Scalar_Undefined} \cup Floats \cup Leaves \cup Arrays \cup Hashes
    \cup Nested \cup ScalarRefs

BridgeArgs == {[fam |-> "bridge", scalar |-> v] : v \in BridgeValues}

\* values presented to the KeySerializer, and the buffer it starts from
KeyChars == {"a", "Z", "0", "_", SQ, BS, " "}
KeyStrings == SeqsUpTo(KeyChars, MaxKeyLen)
Buffers == {<<>>, <<"{">>, <<"{", "a", "=", ">", "1", ",">>}
ScalarKeys ==
  {[shape |-> "str", s |-> s] : s \in KeyStrings}
    \cup {[shape |-> "bool", b |-> b] : b \in BOOLEAN}
    \cup {[shape |-> "int", i |-> i] : i \in {0, 42, 0 - 128, 65535}}
    \cup {[shape |-> "char", c |-> c] : c \in {"a", SQ}}
    \cup {[shape |-> sh] : sh \in {"none", "unit", "i128", "u128"}}
FloatKeys ==
  {[shape |-> sh, f |-> f] :
     sh \in {"f32", "f64"},
     f \in {[neg |-> FALSE, ip |-> <<"1">>, fp |-> <<"5">>],
            [neg |-> TRUE, ip |-> <<>>, fp |-> <<"2", "5">>],
            [neg |-> FALSE, ip |-> <<"2">>, fp |-> <<>>]}}
CompoundShapes ==
  {"seq", "map", "struct", "struct_variant", "tuple", "tuple_struct",
   "tuple_variant"}
CompoundKeys == {[shape |-> sh] : sh \in CompoundShapes}
NamedKeys ==
  {[shape |-> sh, name |-> <<"A">>] : sh \in {"unit_struct", "unit_variant"}}
WrapperKeys ==
  {[shape |-> sh, name |-> <<"N">>, v |-> inner] :
     sh \in {"newtype_struct", "newtype_variant"},
     inner \in {[shape |-> "str", s |-> <<"a">>], [shape |-> "seq"]}}
    \cup {[shape |-> "some", v |-> inner] :
            inner \in {[shape |-> "str", s |-> <<"a", " ">>], [shape |-> "map"]}}
KeyArgs(keys) ==
  {[fam |-> "key", key |-> key, before |-> before] :
     key \in keys, before \in Buffers}

QuoteArgs ==
  {[fam |-> "quote", value |-> s, before |-> before] :
     s \in KeyStrings, before \in Buffers}

(***************************************************************************)
(* The state machine: one call, from its arguments to what it returns.     *)
(***************************************************************************)
VARIABLES
  arg,      \* the call: its family and what its argument is built from
  pc,       \* "call", "printed" (the printer has run), "done"
  input,    \* the text handed to parse
  output,   \* the output buffer (KeySerializer.output, output: &mut String)
  result,   \* what the call returned
  request,  \* the Deserializer method the target type called
  visits    \* the Visitor notifications issued

vars == <<arg, pc, input, output, result, request, visits>>

NoResult == [k |-> "none"]

InitWith(a) ==
  /\ arg = a
  /\ pc = "call"
  /\ input = ArgText(a)
  /\ output = IF a.fam \in {"key", "quote"} THEN a.before ELSE <<>>
  /\ result = NoResult
  /\ request = "none"
  /\ visits = <<>>

Init ==
  \/ \E a \in NumberArgs : InitWith(a)
  \/ \E a \in QStringArgs : InitWith(a)
  \/ \E a \in PairArgs : InitWith(a)
  \/ \E a \in ListArgs : InitWith(a)
  \/ \E a \in LiteralArgs : InitWith(a)
  \/ \E a \in TextArgs : InitWith(a)
  \/ \E a \in RoundTripArgs : InitWith(a)
  \/ \E a \in BridgeArgs : InitWith(a)
  \/ \E a \in KeyArgs(ScalarKeys) : InitWith(a)
  \/ \E a \in KeyArgs(FloatKeys) : InitWith(a)
  \/ \E a \in KeyArgs(CompoundKeys) : InitWith(a)
  \/ \E a \in KeyArgs(NamedKeys) : InitWith(a)
  \/ \E a \in KeyArgs(WrapperKeys) : InitWith(a)
  \/ \E a \in QuoteArgs : InitWith(a)

\* parser::parse(input)
Parse ==
  /\ \/ pc = "call" /\ arg.fam \in ParseFamilies
     \/ pc = "printed"
  /\ result' = parse(input)
  /\ pc' = "done"
  /\ UNCHANGED <<arg, input, output, request, visits>>

\* the printer, on the way to parse
SerializeValue ==
  /\ pc = "call" /\ arg.fam = "roundtrip"
  /\ \E text \in to_string(arg.scalar) : input' = text
  /\ pc' = "printed"
  /\ UNCHANGED <<arg, output, result, request, visits>>

\* from_perl(&scalar): T::deserialize calls one deserialize_* method
FromPerl ==
  /\ pc = "call" /\ arg.fam = "bridge"
  /\ \E req \in Requests :
       /\ request' = req
       /\ \E issued \in deserialize(req, arg.scalar) : visits' = issued
  /\ pc' = "done"
  /\ UNCHANGED <<arg, input, output, result>>

\* from_str(text): parser::parse(text)?, then T::deserialize on the tree;
\* result is what parse returned
FromStr ==
  /\ pc = "call" /\ arg.fam = "text"
  /\ result' = parse(input)
  /\ IF result'.k = "Ok"
     THEN \E req \in Requests :
            /\ request' = req
            /\ \E issued \in deserialize(req, result'.val) : visits' = issued
     ELSE UNCHANGED <<request, visits>>
  /\ pc' = "done"
  /\ UNCHANGED <<arg, input, output>>

\* key.serialize(&mut KeySerializer)
SerializeKey ==
  /\ pc = "call" /\ arg.fam = "key"
  /\ LET r == serialize(output, arg.key)
     IN result' = r.res /\ output' = r.output
  /\ pc' = "done"
  /\ UNCHANGED <<arg, input, request, visits>>

\* quote::single_quote(&mut output, value)
SingleQuote ==
  /\ pc = "call" /\ arg.fam = "quote"
  /\ output' = single_quote(output, arg.value)
  /\ pc' = "done"
  /\ UNCHANGED <<arg, input, result, request, visits>>

Next ==
  Parse \/ SerializeValue \/ FromPerl \/ FromStr \/ SerializeKey \/ SingleQuote

Spec == Init /\ [][Next]_vars

(***************************************************************************)
(* The properties.                                                         *)
(***************************************************************************)
Returned == pc = "done"

\* C1: round trip.  Printing a tree by the printer rules and parsing the
\* text gives back the tree (a Hash is a function, so key order is aside).
C1_RoundTrip ==
  (Returned /\ arg.fam = "roundtrip") => result = ResultOk(arg.scalar)

\* C2: parse never aborts.  Whatever the text, parse returns Ok(tree) or
\* Err(error), never a panic of the numeric conversion.
C2_ParseNeverAborts ==
  (Returned /\ arg.fam \in ParseFamilies) => result.k \in {"Ok", "Err"}

ValidList == arg.fam = "list" /\ Range(arg.elems) \subseteq ElementTexts

\* C3: trailing comma tolerance.  A non-empty list of valid elements or
\* pairs written with one trailing comma parses, and to the tree of the text
\* without the trailing comma, whatever the whitespace around the commas.
C3_TrailingComma ==
  (Returned /\ ValidList /\ arg.trailing) =>
    /\ result.k = "Ok"
    /\ result = parse(ListText([arg EXCEPT !.trailing = FALSE]))

C3_Witness ==
  /\ Returned /\ ValidList /\ arg.trailing
  /\ arg.kind = "hash" /\ Len(arg.elems) = 2 /\ arg.wb = 1 /\ arg.wa = 1
  /\ result.k = "Ok" /\ Cardinality(DOMAIN result.val.r.h) = 2

\* C4: bareword keys only on the fat-comma form.  {b=>v} parses to a hash
\* whose single key is the string b, and {b,v} fails to parse.
C4_BarewordKeys ==
  (Returned /\ arg.fam = "pair") =>
    IF arg.fat
    THEN /\ result.k = "Ok"
         /\ result.val.t = "Reference" /\ result.val.r.t = "Hash"
         /\ DOMAIN result.val.r.h = {arg.b}
    ELSE result.k = "Err"

PlainBody ==
  /\ arg.fam = "qstring"
  /\ BS \notin Range(arg.body)
  /\ paired_quote_delimiter(arg.d) \notin Range(arg.body)

\* C5: quote-operator equivalence.  q, a delimiter of PUNCTUATION, a body
\* with no backslash and no closing delimiter, the closing delimiter: the
\* result is String(body), whichever the delimiter.
C5_QuoteOperator ==
  (Returned /\ PlainBody) => result = ResultOk(Scalar_String(arg.body))

C5_Witness ==
  /\ Returned /\ PlainBody
  /\ arg.d = "(" /\ arg.body = <<"h", "i">>
  /\ result = ResultOk(Scalar_String(<<"h", "i">>))

NonScalarShapes ==
  {"seq", "map", "struct", "tuple", "tuple_struct", "unit_variant",
   "newtype_variant", "tuple_variant", "struct_variant"}

\* C6: a key must be scalar.  For a sequence, a map, a struct, a tuple, a
\* tuple struct and every enum variant shape the Key Printer returns the key
\* error and appends no key text.
C6_KeyMustBeScalar ==
  (Returned /\ arg.fam = "key" /\ arg.key.shape \in NonScalarShapes) =>
    /\ result = ResultErr("key must be a string")
    /\ output = arg.before

StringKey == arg.fam = "key" /\ arg.key.shape = "str"

RECURSIVE BackslashEscaped(_)
\* the characters of a string, each single quote and each backslash behind
\* one backslash
BackslashEscaped(value) ==
  IF value = <<>> THEN <<>>
  ELSE (IF Head(value) \in {SQ, BS} THEN <<BS, Head(value)>> ELSE <<Head(value)>>)
         \o BackslashEscaped(Tail(value))

\* C8: single_quote renders a string as a single quote, the characters in
\* order with each single quote and each backslash behind one backslash, and
\* a single quote.
C8_SingleQuote ==
  (Returned /\ arg.fam = "quote") =>
    output = arg.before \o <<SQ>> \o BackslashEscaped(arg.value) \o <<SQ>>

MalformedList == arg.fam = "list" /\ Range(arg.elems) \cap BadTexts # {}

\* C9: no partial-tree recovery.  An arrayref or hashref, at any depth, one
\* of whose elements or values is no scalar of the grammar makes parse
\* return an error.
C9_NoPartialTree ==
  (Returned /\ MalformedList) => result.k = "Err"

\* the entries of a map notification are the entries of h, each once
EachEntryOnce(entries, h) ==
  /\ Len(entries) = Cardinality(DOMAIN h)
  /\ {entries[i][1] : i \in DOMAIN entries} = DOMAIN h
  /\ \A i \in DOMAIN entries : entries[i][2] = h[entries[i][1]]

\* the one notification the variant of a node calls for
Dispatched(node, visit) ==
  CASE node.t = "Undefined" -> visit = [visit |-> "unit"]
    [] node.t = "Int" -> visit = [visit |-> "i64", v |-> node.i]
    [] node.t = "Float" -> visit = [visit |-> "f64", v |-> node.f]
    [] node.t = "String" -> visit = [visit |-> "string", v |-> node.s]
    [] node.t = "Reference" ->
         CASE node.r.t = "Hash" ->
                visit.visit = "map" /\ EachEntryOnce(visit.entries, node.r.h)
           [] node.r.t = "Array" -> visit = [visit |-> "seq", elems |-> node.r.a]
           [] node.r.t = "Scalar" -> TRUE

\* C10: the dispatch of the Deserialize Bridge.  Whatever method the target
\* type requests, exactly one notification is issued, the one the variant of
\* the node calls for: unit, i64, f64, string, a map over every entry once,
\* a sequence over the elements in stored order.
C10_Dispatch ==
  (Returned /\ arg.fam = "bridge") =>
    /\ Len(visits) = 1
    /\ visits[1].visit \in {"unit", "i64", "f64", "string", "map", "seq"}
    /\ Dispatched(arg.scalar, visits[1])

C10_Witness ==
  /\ Returned /\ arg.fam = "bridge" /\ request = "struct"
  /\ arg.scalar.t = "Reference" /\ arg.scalar.r.t = "Hash"
  /\ Cardinality(DOMAIN arg.scalar.r.h) = 2
  /\ Len(visits) = 1 /\ visits[1].visit = "map" /\ Len(visits[1].entries) = 2

\* a number literal with an exponent: digits, maybe a fraction, the marker,
\* digits
ExponentLiteral ==
  /\ arg.fam = "number" /\ arg.wrap = "none"
  /\ \E p \in 2..(Len(arg.t) - 1) :
       /\ arg.t[p] \in {"e", "E"}
       /\ Range(SubSeq(arg.t, p + 1, Len(arg.t))) \subseteq Digits
       /\ Range(SubSeq(arg.t, 1, p - 1)) \subseteq Digits \cup {"."}
       /\ arg.t[1] \in Digits /\ arg.t[p - 1] \in Digits

WithoutMarker(t) == SelectSeq(t, LAMBDA c : c \notin {"e", "E"})

\* C11: exponent handling.  The exponent digits of a number literal are not
\* read as further digits of the mantissa (1e5 is not 15, 1.5e3 is not
\* 1.53); without a fraction the literal is an Int, with one a Float.
C11_ExponentKept ==
  (Returned /\ ExponentLiteral) =>
    /\ result # parse(WithoutMarker(arg.t))
    /\ result.k = "Ok" =>
         result.val.t = (IF "." \in Range(arg.t) THEN "Float" ELSE "Int")

RECURSIVE SingleDecoded(_)
\* the content of a single-quoted literal: backslash-quote is a quote,
\* backslash-backslash a backslash, anything else itself
SingleDecoded(items) ==
  IF items = <<>> THEN <<>>
  ELSE (IF Head(items) \in {<<BS, SQ>>, <<BS, BS>>}
        THEN <<Head(items)[2]>>
        ELSE Head(items)) \o SingleDecoded(Tail(items))

SingleLiteral == arg.fam = "literal" /\ arg.quote = "single" /\ ~arg.key

\* C12: single-quoted literal decoding.  parse yields the String of the body
\* with backslash-quote read as a quote and backslash-backslash as a
\* backslash, every other character kept; '' yields the empty string.
C12_SingleQuotedDecoding ==
  (Returned /\ SingleLiteral) =>
    result = ResultOk(Scalar_String(SingleDecoded(arg.items)))

\* a string literal that parses on its own, as the fat-comma key of a hashref
LiteralKey ==
  /\ arg.fam = "literal" /\ arg.key
  /\ parse(Literal(arg.quote, arg.items)).k = "Ok"

\* C13: any string literal is a fat-comma key.  When the literal L parses on
\* its own to String(s), {L => v} parses to a hash whose single key is s.
C13_LiteralKeys ==
  (Returned /\ LiteralKey) =>
    /\ result.k = "Ok"
    /\ result.val.t = "Reference" /\ result.val.r.t = "Hash"
    /\ DOMAIN result.val.r.h = {parse(Literal(arg.quote, arg.items)).val.s}

RECURSIVE RefToRef(_)
\* the tree holds a scalar reference whose target is a scalar reference
RefToRef(x) ==
  /\ x.t = "Reference"
  /\ CASE x.r.t = "Scalar" ->
             \/ x.r.x.t = "Reference" /\ x.r.x.r.t = "Scalar"
             \/ RefToRef(x.r.x)
        [] x.r.t = "Array" -> \E i \in DOMAIN x.r.a : RefToRef(x.r.a[i])
        [] x.r.t = "Hash" -> \E key \in DOMAIN x.r.h : RefToRef(x.r.h[key])

\* C14: single-level dereference.  No tree parse returns holds a scalar
\* reference to a scalar reference, so the bridge unwraps one level at most.
C14_SingleLevel ==
  (Returned /\ arg.fam = "text" /\ result.k = "Ok") => ~RefToRef(result.val)

NumericKey ==
  arg.fam = "key" /\ arg.key.shape \in {"bool", "int", "f32", "f64"}

\* the text of the numeric rule: 1 or 0, the minimal decimal, the shortest
\* decimal that reads back
NumericText(key) ==
  CASE key.shape = "bool" -> IF key.b THEN <<"1">> ELSE <<"0">>
    [] key.shape = "int" -> itoa_format(key.i)
    [] key.shape \in {"f32", "f64"} -> ryu_format(key.f)

\* C15: numeric keys of the Key Printer.  A boolean, integer or float key is
\* appended as the text of the numeric rule, unquoted and once; a 64-bit
\* float as a 32-bit float of the same value.
C15_NumericKeys ==
  (Returned /\ NumericKey) =>
    /\ result = ResultOk("unit")
    /\ output = arg.before \o NumericText(arg.key)

\* the fixed table of the double-quoted escapes
EscapeTable ==
  [c \in {BS, DQ, "n", "r", "t", "0", "v", "b", "a", "e", "z"} |->
     CASE c = BS -> BS [] c = DQ -> DQ [] c = "n" -> "\n" [] c = "r" -> "\r"
       [] c = "t" -> "\t" [] c = "0" -> "<0x00>" [] c = "v" -> "<0x0B>"
       [] c = "b" -> "<0x08>" [] c = "a" -> "<0x07>" [] c = "e" -> "<0x1B>"
       [] c = "z" -> "<0x1F>"]

InTable(item) == Len(item) = 1 \/ item[2] \in DOMAIN EscapeTable

RECURSIVE DoubleDecoded(_)
DoubleDecoded(items) ==
  IF items = <<>> THEN <<>>
  ELSE (IF Len(Head(items)) = 2 THEN <<EscapeTable[Head(items)[2]]>> ELSE Head(items))
         \o DoubleDecoded(Tail(items))

DoubleLiteral == arg.fam = "literal" /\ arg.quote = "double" /\ ~arg.key

\* C16: the double-quoted escape table.  parse yields the body with each
\* escape replaced by the one character of the table and every other
\* character kept; an escape outside the table makes parse fail.
C16_EscapeTable ==
  (Returned /\ DoubleLiteral) =>
    IF \A i \in DOMAIN arg.items : InTable(arg.items[i])
    THEN result = ResultOk(Scalar_String(DoubleDecoded(arg.items)))
    ELSE result.k = "Err"

\* C17: parse consumes the whole input.  When parse, and so from_str,
\* returns a tree, the scalar rule matched the entire text; a scalar with
\* more text behind it is rejected.
C17_WholeInput ==
  (Returned /\ arg.fam = "text" /\ (result.k = "Ok" \/ visits # <<>>)) =>
    parse_scalar(input).rest = <<>>

====
